---- MODULE Spec2Model ----
(***************************************************************************)
(* Model of scripts/generate_rss.py: the site-identity predicate, the      *)
(* multi-strategy fetcher, the feed and HTML extractors, and main's        *)
(* aggregation (filter, dedup, sort, truncate, serialize).                 *)
(*                                                                         *)
(* Encodings.  A host is a sequence of one-character strings.  A URL is a  *)
(* record [host, path]; path is a sequence of strings.  An href is a URL   *)
(* plus a flag `bad` for a string urllib refuses to split (ValueError      *)
(* "Invalid IPv6 URL"); an href with an empty host is relative.  Optional  *)
(* values (Optional[str], None) are sequences of length 0 or 1.  A         *)
(* publication instant is a natural number counted from datetime.min       *)
(* (MinDt); NoDt stands for None.  Texts are tokens.                       *)
(***************************************************************************)
EXTENDS Integers, Sequences, FiniteSets, TLC

VARIABLES
    site,               \* one call of is_same_site: arguments, position, result
    fetch,              \* one call of parse_from_feed, its fetch_url call in steps
    wide,               \* input universe of the run: long feeds and listings
    sources,            \* main: the list read from sources.txt
    si,                 \* main: index of the source being processed
    pc,                 \* main: position in the program
    news_page,          \* main: news_page of the current source
    uniq_fu,            \* main: uniq_fu of the current source
    fi,                 \* main: index into uniq_fu
    d,                  \* parse_from_feed: d.entries of the feed that gave got
    got,                \* main: got (inside parse_from_html: items)
    via,                \* main: via
    uniq,               \* parse_from_html: uniq
    ci,                 \* parse_from_html: candidates of uniq processed so far
    all_items,          \* main: all_items
    rejected_external,  \* main: rejected_external
    dedup,              \* main: dedup
    rss,                \* main: the document written to OUT_XML, (0 or 1)
    clock,              \* wall clock
    docs                \* the documents written by the runs so far

mainVars == <<wide, sources, si, pc, news_page, uniq_fu, fi, d, got, via,
              uniq, ci, all_items, rejected_external, dedup, rss, clock, docs>>

vars == <<site, fetch, mainVars>>

(***************************************************************************)
(* Program constants.                                                      *)
(***************************************************************************)
PER_ORG == 3
TOTAL_LIMIT == 200
COMMON_FEEDS == <<"feed/", "feed", "rss.xml", "rss", "rss/", "atom", "atom/",
                  "?format=feed&type=rss", "?format=feed&type=atom">>

(***************************************************************************)
(* Bounds of the model.                                                    *)
(***************************************************************************)
MaxHostLen == 4      \* longest candidate host drawn for is_same_site
MaxHomeLen == 3      \* longest home host drawn for is_same_site
MaxSources == 2      \* longest source list of a run
MaxEntries == 2      \* longest feed (entries) in a run over several sources
MaxCands == 2        \* most anchors on a listing page, several sources
CapEntries == 5      \* longest mixed feed in the single-source runs
CapExtra == 1        \* listing links beyond PER_ORG * 6 in single-source runs
MaxDt == 1           \* latest publication instant (MinDt .. MaxDt)
MaxRuns == 2         \* runs of the aggregation over the same fetch results

MinDt == 0           \* datetime.min.replace(tzinfo=utc), the oldest instant
NoDt == -1           \* None: no publication instant

(***************************************************************************)
(* Generic helpers.                                                        *)
(***************************************************************************)
SeqsUpTo(S, n) == UNION {[1..k -> S] : k \in 0..n}

Range(s) == {s[i] : i \in 1..Len(s)}

EndsWith(s, suf) ==
    /\ Len(suf) <= Len(s)
    /\ SubSeq(s, Len(s) - Len(suf) + 1, Len(s)) = suf

StartsWith(s, pre) ==
    /\ Len(pre) <= Len(s)
    /\ SubSeq(s, 1, Len(pre)) = pre

Min(a, b) == IF a <= b THEN a ELSE b

(***************************************************************************)
(* Site identity: norm_host_from_url, is_same_site.                        *)
(***************************************************************************)
\* str.lower() on one character of the model's alphabet
LowerChar(c) ==
    CASE c = "W" -> "w"
      [] c = "X" -> "x"
      [] OTHER -> c

Lower(h) == [i \in 1..Len(h) |-> LowerChar(h[i])]

\* str.strip(): drop leading and trailing whitespace
RECURSIVE Strip(_)
Strip(h) ==
    IF h = <<>> THEN h
    ELSE IF Head(h) = " " THEN Strip(Tail(h))
    ELSE IF h[Len(h)] = " " THEN Strip(SubSeq(h, 1, Len(h) - 1))
    ELSE h

\* str.lstrip(chars): drop every leading character that is a member of chars
RECURSIVE LStrip(_, _)
LStrip(h, chars) ==
    IF h # <<>> /\ Head(h) \in chars THEN LStrip(Tail(h), chars) ELSE h

\* the argument of host.lstrip("www."), as the set of characters it denotes
WwwChars == {"w", "."}

RECURSIVE SplitDots(_, _)
SplitDots(h, cur) ==
    IF h = <<>> THEN <<cur>>
    ELSE IF Head(h) = "." THEN <<cur>> \o SplitDots(Tail(h), <<>>)
    ELSE SplitDots(Tail(h), Append(cur, Head(h)))

\* host.encode("idna").decode("ascii") inside try/except-pass.  The hosts of
\* the model are ASCII: the codec returns an ASCII label unchanged, and it
\* raises UnicodeError on an empty label that is not the last one or on a
\* label of 64 characters or more, in which case the except clause keeps
\* the host as it was.
IdnaEncode(h) ==
    LET labels == SplitDots(h, <<>>)
        fails == \E i \in 1..Len(labels) :
                     \/ (labels[i] = <<>> /\ i < Len(labels))
                     \/ Len(labels[i]) >= 64
    IN IF h = <<>> \/ fails THEN h
       ELSE h

norm_host_from_url(url) ==
    LET host0 == Strip(Lower(url.host))
        host1 == LStrip(host0, WwwChars)
    IN IdnaEncode(host1)

\* is_same_site with the suffix test lacking the separating dot
is_same_site_nodot(url, home_url) ==
    LET a == norm_host_from_url(url)
        e == norm_host_from_url(home_url)
    IN IF a = <<>> \/ e = <<>> THEN FALSE
       ELSE a = e \/ EndsWith(a, e)

is_same_site(url, home_url) ==
    LET a == norm_host_from_url(url)
        e == norm_host_from_url(home_url)
    IN IF a = <<>> \/ e = <<>> THEN FALSE
       ELSE a = e \/ EndsWith(a, <<".">> \o e)

(***************************************************************************)
(* URLs, responses and page bodies.                                        *)
(***************************************************************************)
Url(h, p) == [host |-> h, path |-> p]

\* an href as written in a document; bad: urllib raises ValueError on it
Href(h, p) == [host |-> h, path |-> p, bad |-> FALSE]
BadHref == [host |-> <<"[">>, path |-> <<>>, bad |-> TRUE]

\* urllib.parse.urljoin(base, href) on an href urllib accepts: an absolute
\* href replaces the base, a relative one (empty host) is resolved against
\* the base's host.  On a bad href the call raises ValueError; every caller
\* tests href.bad first and takes its own exception path.
urljoin(base, href) ==
    IF href.host = <<>> THEN Url(base.host, href.path)
    ELSE Url(href.host, href.path)

\* the parts of a response body the program looks at:
\*   xml      the body starts with an XML marker ("<?xml")
\*   html     b"<html" or b"<!doctype html" occurs in raw[:400].lower()
\*   link     the feed's own link (d.feed.link), optional
\*   entries  what feedparser.parse(raw) recovers as d.entries
\*   alts     <link rel="alternate" type=rss/atom/xml href=...> elements
\*   anchors  <a href=...> elements, in document order
\*   h1       text of the first <h1>, "" when there is none
\*   text     visible text of the article container after the heading
\*   date     what parse_date_from_page finds on the page
EmptyBody ==
    [xml |-> FALSE, html |-> FALSE, link |-> <<>>, entries |-> <<>>,
     alts |-> <<>>, anchors |-> <<>>, h1 |-> "", text |-> "",
     date |-> [kind |-> "none", dt |-> NoDt]]

Resp(status, url, ctype, body) ==
    [status |-> status, url |-> url, ctype |-> ctype, body |-> body]

\* one strategy's outcome: a transport exception, or a response
Exc == [kind |-> "exc", resp |-> Resp(0, <<>>, "", EmptyBody)]
Got(r) == [kind |-> "resp", resp |-> r]

\* getattr(resp, "url", None) or <requested url>
FinalUrl(resp, requested) == IF resp.url = <<>> THEN requested ELSE resp.url[1]

(***************************************************************************)
(* fetch_url: requests -> curl_cffi -> cloudscraper -> fallback.           *)
(* A fetch state is [pc, r, ret, tried]: the position in the function,     *)
(* the local r (None or the 403 response of requests), the returned        *)
(* response, and the strategies attempted so far, in order.                *)
(***************************************************************************)
Strategies == <<"requests", "curl_cffi", "cloudscraper">>

FetchStart == [pc |-> "requests", r |-> <<>>, ret |-> <<>>, tried |-> <<>>]

\* fetch_url in which a successful curl_cffi response does not return
FetchStepNoReturn(s, outs) ==
    CASE s.pc = "requests" ->
            IF outs[1].kind = "resp" /\ outs[1].resp.status # 403
            THEN [s EXCEPT !.pc = "returned", !.ret = <<outs[1].resp>>,
                           !.tried = Append(@, "requests")]
            ELSE [s EXCEPT !.pc = "curl_cffi",
                           !.r = IF outs[1].kind = "resp" THEN <<outs[1].resp>> ELSE <<>>,
                           !.tried = Append(@, "requests")]
      [] s.pc = "curl_cffi" ->
            [s EXCEPT !.pc = "cloudscraper", !.tried = Append(@, "curl_cffi")]
      [] s.pc = "cloudscraper" ->
            IF outs[3].kind = "resp"
            THEN [s EXCEPT !.pc = "returned", !.ret = <<outs[3].resp>>,
                           !.tried = Append(@, "cloudscraper")]
            ELSE [s EXCEPT !.pc = "fallback", !.tried = Append(@, "cloudscraper")]
      [] s.pc = "fallback" ->
            IF s.r # <<>> THEN [s EXCEPT !.pc = "returned", !.ret = s.r]
            ELSE [s EXCEPT !.pc = "raised"]
      [] OTHER -> s

FetchStep(s, outs) ==
    CASE s.pc = "requests" ->
            IF outs[1].kind = "resp" /\ outs[1].resp.status # 403
            THEN [s EXCEPT !.pc = "returned", !.ret = <<outs[1].resp>>,
                           !.tried = Append(@, "requests")]
            ELSE [s EXCEPT !.pc = "curl_cffi",
                           !.r = IF outs[1].kind = "resp" THEN <<outs[1].resp>> ELSE <<>>,
                           !.tried = Append(@, "requests")]
      [] s.pc = "curl_cffi" ->
            IF outs[2].kind = "resp" /\ outs[2].resp.status # 403
            THEN [s EXCEPT !.pc = "returned", !.ret = <<outs[2].resp>>,
                           !.tried = Append(@, "curl_cffi")]
            ELSE [s EXCEPT !.pc = "cloudscraper", !.tried = Append(@, "curl_cffi")]
      [] s.pc = "cloudscraper" ->
            IF outs[3].kind = "resp"
            THEN [s EXCEPT !.pc = "returned", !.ret = <<outs[3].resp>>,
                           !.tried = Append(@, "cloudscraper")]
            ELSE [s EXCEPT !.pc = "fallback", !.tried = Append(@, "cloudscraper")]
      [] s.pc = "fallback" ->
            IF s.r # <<>> THEN [s EXCEPT !.pc = "returned", !.ret = s.r]
            ELSE [s EXCEPT !.pc = "raised"]
      [] OTHER -> s

\* the whole call: at most four steps lead from FetchStart to a final state
fetch_url(outs) ==
    FetchStep(FetchStep(FetchStep(FetchStep(FetchStart, outs), outs), outs), outs)

(***************************************************************************)
(* parse_from_feed.                                                        *)
(* A feed entry is [link, title, summary, dt]: link is optional (0 or 1    *)
(* href), title and summary are text tokens ("" when absent), dt is the    *)
(* instant of published_parsed or updated_parsed, NoDt when neither.       *)
(* An item is [title, link, description, _dt]; title is <<org, text>> for  *)
(* the f-string "[{org_name}] {text}".                                     *)
(***************************************************************************)
Novost == "Novost"

FeedItem(e, link, org) ==
    LET summary == e.summary
        raw_title == IF e.title = "" /\ summary # "" THEN summary ELSE e.title
    IN [title |-> IF raw_title # "" THEN <<org, raw_title>> ELSE <<org, Novost>>,
        link |-> link,
        description |-> IF summary # "" THEN summary ELSE Novost,
        _dt |-> e.dt]

\* the loop without the break at PER_ORG
RECURSIVE FeedLoopNoCap(_, _, _, _, _, _)
FeedLoopNoCap(entries, i, items, base, org, home_url) ==
    IF i > Len(entries) THEN items
    ELSE LET e == entries[i]
             link == IF e.link = <<>> THEN <<>> ELSE <<urljoin(base, e.link[1])>>
         IN IF link = <<>> \/ ~is_same_site(link[1], home_url)
            THEN FeedLoopNoCap(entries, i + 1, items, base, org, home_url)
            ELSE FeedLoopNoCap(entries, i + 1, Append(items, FeedItem(e, link[1], org)),
                               base, org, home_url)

\* the body of the loop over d.entries, from entry i on
RECURSIVE FeedLoop(_, _, _, _, _, _)
FeedLoop(entries, i, items, base, org, home_url) ==
    IF i > Len(entries) THEN items
    ELSE LET e == entries[i]
             link == IF e.link = <<>> THEN <<>> ELSE <<urljoin(base, e.link[1])>>
         IN IF link = <<>> \/ ~is_same_site(link[1], home_url)
            THEN FeedLoop(entries, i + 1, items, base, org, home_url)
            ELSE LET items2 == Append(items, FeedItem(e, link[1], org))
                 IN IF Len(items2) >= PER_ORG THEN items2
                    ELSE FeedLoop(entries, i + 1, items2, base, org, home_url)

\* the try block of parse_from_feed, f being the final state of its
\* fetch_url(feed_url) call: [parsed, entries, base].  parsed is FALSE when
\* the function returns [] before or instead of feedparser.parse(raw).
feed_parse(f, feed_url) ==
    IF f.pc = "raised" THEN [parsed |-> FALSE, entries |-> <<>>, base |-> feed_url]
    ELSE LET resp == f.ret[1]
             body == resp.body
         IN IF resp.status >= 400 \/ body.html
            THEN [parsed |-> FALSE, entries |-> <<>>, base |-> feed_url]
            ELSE [parsed |-> TRUE, entries |-> body.entries,
                  base |-> IF body.link # <<>> THEN body.link[1] ELSE feed_url]

parse_from_feed(f, feed_url, org, home_url) ==
    LET p == feed_parse(f, feed_url)
    IN IF ~p.parsed THEN <<>>
       ELSE FeedLoop(p.entries, 1, <<>>, p.base, org, home_url)

(***************************************************************************)
(* Hosts and URLs of the runs.                                             *)
(***************************************************************************)
HostHome == <<"x", ".", "c">>
HostWww == <<"w", "w", "w", ".", "x", ".", "c">>
HostSub == <<"e", ".", "x", ".", "c">>
HostEvil == <<"e", "x", ".", "c">>
HostOther == <<"e", ".", "c">>

HomeUrl == Url(HostHome, <<>>)
HostSubUrl == Url(HostSub, <<>>)
WwwUrl == Url(HostWww, <<>>)

\* order-preserving removal of repeats (the seen-set loops)
RECURSIVE UniqFrom(_, _, _)
UniqFrom(s, i, acc) ==
    IF i > Len(s) THEN acc
    ELSE IF s[i] \in Range(acc) THEN UniqFrom(s, i + 1, acc)
    ELSE UniqFrom(s, i + 1, Append(acc, s[i]))

Uniq(s) == UniqFrom(s, 1, <<>>)

\* any(w in s for w in NEWS_WORDS) on a path of the model
HasNewsWord(path) == "news" \in Range(path)

\* any(w in h for w in NEWS_WORDS) or "article" in h or "post" in h or "/202" in h
LooksLikeArticle(path) == \E t \in Range(path) : t \in {"news", "article", "post", "2024"}

(***************************************************************************)
(* pick_news_page.  f is the final state of fetch_url(home_url).           *)
(* An anchor is [href, text]; text is a token, "news" for a text that      *)
(* contains one of NEWS_WORDS.                                             *)
(***************************************************************************)
RECURSIVE PickScan(_, _, _)
PickScan(anchors, i, home_url) ==
    IF i > Len(anchors) THEN home_url
    ELSE LET a == anchors[i]
         IN IF a.href.bad THEN home_url    \* ValueError: except/pass, return home_url
            ELSE LET cand == urljoin(home_url, a.href)
                 IN IF ~is_same_site(cand, home_url)
                    THEN PickScan(anchors, i + 1, home_url)
                    ELSE IF a.text = "news" \/ HasNewsWord(a.href.path) THEN cand
                    ELSE PickScan(anchors, i + 1, home_url)

pick_news_page(home_url, explicit_news_url, f) ==
    IF explicit_news_url # <<>> THEN explicit_news_url[1]
    ELSE IF f.pc = "raised" THEN home_url
    ELSE PickScan(f.ret[1].body.anchors, 1, home_url)

(***************************************************************************)
(* detect_feed_urls.  f is the final state of fetch_url(page_url).         *)
(***************************************************************************)
\* the loop over <link rel="alternate"> elements; a ValueError from urljoin
\* leaves the try block with what was found so far
RECURSIVE AltScan(_, _, _, _, _)
AltScan(alts, i, found, page_url, home_url) ==
    IF i > Len(alts) THEN found
    ELSE IF alts[i].bad THEN found
    ELSE LET u == urljoin(page_url, alts[i])
         IN IF is_same_site(u, home_url) /\ u \notin Range(found)
            THEN AltScan(alts, i + 1, Append(found, u), page_url, home_url)
            ELSE AltScan(alts, i + 1, found, page_url, home_url)

\* the loop over COMMON_FEEDS: urljoin(page_url.rstrip("/") + "/", tail)
RECURSIVE TailScan(_, _, _, _)
TailScan(i, found, page_url, home_url) ==
    IF i > Len(COMMON_FEEDS) THEN found
    ELSE LET u == Url(page_url.host, Append(page_url.path, COMMON_FEEDS[i]))
         IN IF is_same_site(u, home_url) /\ u \notin Range(found)
            THEN TailScan(i + 1, Append(found, u), page_url, home_url)
            ELSE TailScan(i + 1, found, page_url, home_url)

detect_feed_urls(page_url, home_url, f) ==
    LET found == IF f.pc = "raised" THEN <<>>
                 ELSE AltScan(f.ret[1].body.alts, 1, <<>>, page_url, home_url)
    IN TailScan(1, found, page_url, home_url)

(***************************************************************************)
(* parse_article.  f is the final state of fetch_url(article_url).  The    *)
(* result is [kind, item]: "exc" an exception leaves the function, "none"  *)
(* it returns None, "item" it returns the item.                            *)
(***************************************************************************)
NoItem == [title |-> <<"", "">>, link |-> Url(<<>>, <<>>), description |-> "", _dt |-> NoDt]

parse_article(article_url, org, home_url, f) ==
    IF f.pc = "raised" THEN [kind |-> "exc", item |-> NoItem]
    ELSE LET resp == f.ret[1]
             final_url == FinalUrl(resp, article_url)
             body == resp.body
             h1_title == IF body.h1 # "" THEN body.h1 ELSE Novost
         IN IF ~is_same_site(final_url, home_url) THEN [kind |-> "none", item |-> NoItem]
            ELSE IF body.date.kind = "invalid"
            THEN [kind |-> "exc", item |-> NoItem]   \* datetime(...) raises ValueError
            ELSE [kind |-> "item",
                  item |-> [title |-> <<org, h1_title>>,
                            link |-> final_url,
                            description |-> IF body.text # "" THEN body.text ELSE h1_title,
                            _dt |-> body.date.dt]]

(***************************************************************************)
(* parse_from_html, up to the loop over the candidates.  f is the final    *)
(* state of fetch_url(news_page_url).  The result is [kind, uniq]: "exc"   *)
(* an exception leaves the function, "empty" it returns [], "loop" it      *)
(* enters the loop over uniq[:PER_ORG * 6].                                *)
(***************************************************************************)
RECURSIVE CandScan(_, _, _, _, _)
CandScan(anchors, i, candidates, final_url, home_url) ==
    IF i > Len(anchors) THEN [kind |-> "loop", uniq |-> Uniq(candidates)]
    ELSE IF anchors[i].href.bad
    THEN [kind |-> "exc", uniq |-> <<>>]   \* urljoin raises outside any try
    ELSE LET full == urljoin(final_url, anchors[i].href)
         IN IF ~is_same_site(full, home_url)
            THEN CandScan(anchors, i + 1, candidates, final_url, home_url)
            ELSE IF LooksLikeArticle(full.path)
            THEN CandScan(anchors, i + 1, Append(candidates, full), final_url, home_url)
            ELSE CandScan(anchors, i + 1, candidates, final_url, home_url)

parse_from_html_head(news_page_url, home_url, f) ==
    IF f.pc = "raised" THEN [kind |-> "empty", uniq |-> <<>>]
    ELSE LET resp == f.ret[1]
             final_url == FinalUrl(resp, news_page_url)
         IN IF ~is_same_site(final_url, home_url) THEN [kind |-> "empty", uniq |-> <<>>]
            ELSE CandScan(resp.body.anchors, 1, <<>>, final_url, home_url)
(***************************************************************************)
(* main: filter, dedup, sort, truncate; make_rss.                          *)
(***************************************************************************)
NoLink == Url(<<>>, <<>>)

\* filtered: the items of got with a link that is same-site with home_url
Filter(items, home_url) ==
    SelectSeq(items, LAMBDA it : it.link # NoLink /\ is_same_site(it.link, home_url))

\* dedup in which a later item with a link already seen replaces the kept one
RECURSIVE DedupLastWins(_, _, _)
DedupLastWins(items, i, acc) ==
    IF i > Len(items) THEN acc
    ELSE LET it == items[i]
         IN IF it.link = NoLink THEN DedupLastWins(items, i + 1, acc)
            ELSE IF \E j \in 1..Len(acc) : acc[j].link = it.link
            THEN DedupLastWins(items, i + 1,
                     [j \in 1..Len(acc) |-> IF acc[j].link = it.link THEN it ELSE acc[j]])
            ELSE DedupLastWins(items, i + 1, Append(acc, it))

\* the dedup loop: seen is the set of links of acc
RECURSIVE DedupLoop(_, _, _)
DedupLoop(items, i, acc) ==
    IF i > Len(items) THEN acc
    ELSE LET it == items[i]
         IN IF it.link # NoLink /\ ~(\E j \in 1..Len(acc) : acc[j].link = it.link)
            THEN DedupLoop(items, i + 1, Append(acc, it))
            ELSE DedupLoop(items, i + 1, acc)

\* key_dt: the instant in UTC, min_dt for an item without one
key_dt(it) == IF it._dt # NoDt THEN it._dt ELSE MinDt

\* list.sort(key=key_dt, reverse=True): descending and stable, so items with
\* equal keys keep their relative order
RECURSIVE InsertDesc(_, _)
InsertDesc(sorted, it) ==
    IF sorted = <<>> THEN <<it>>
    ELSE IF key_dt(Head(sorted)) >= key_dt(it)
    THEN <<Head(sorted)>> \o InsertDesc(Tail(sorted), it)
    ELSE <<it>> \o sorted

RECURSIVE SortFrom(_, _, _)
SortFrom(items, i, acc) ==
    IF i > Len(items) THEN acc ELSE SortFrom(items, i + 1, InsertDesc(acc, items[i]))

SortDesc(items) == SortFrom(items, 1, <<>>)

\* to_rfc822 and to_iso8601: the instant in UTC, in the named text format
to_rfc822(dt) == [fmt |-> "rfc822", utc |-> dt]
to_iso8601(dt) == [fmt |-> "iso8601", utc |-> dt]

\* datetime.now(timezone.utc) at wall-clock reading t: later than every
\* publication instant of the model
Now(t) == MaxDt + t

\* make_rss that stamps every item with the time of serialization
make_rss_stamped(items, t) ==
    [title |-> "OUT_TITLE", link |-> "OUT_LINK", description |-> "OUT_TITLE",
     lastBuildDate |-> to_rfc822(Now(t)),
     items |-> [i \in 1..Len(items) |->
                  [title |-> items[i].title, link |-> items[i].link, guid |-> items[i].link,
                   pubDate |-> to_rfc822(Now(t)), dc_date |-> to_iso8601(Now(t)),
                   description |-> items[i].description]]]

\* make_rss(items, OUT_TITLE, OUT_LINK) at wall-clock reading t
make_rss(items, t) ==
    [title |-> "OUT_TITLE", link |-> "OUT_LINK", description |-> "OUT_TITLE",
     lastBuildDate |-> to_rfc822(Now(t)),
     items |-> [i \in 1..Len(items) |->
                  LET it == items[i]
                      dt == IF it._dt # NoDt THEN it._dt ELSE Now(t)
                  IN [title |-> it.title, link |-> it.link, guid |-> it.link,
                      pubDate |-> to_rfc822(dt), dc_date |-> to_iso8601(dt),
                      description |-> it.description]]]

(***************************************************************************)
(* Input universes: what the servers answer.  Every strategy of one        *)
(* fetch_url call meets a transport exception, a 403 block page, or the    *)
(* content the server has for the URL.                                     *)
(***************************************************************************)
BlockPage == Resp(403, <<>>, "text/html", [EmptyBody EXCEPT !.html = TRUE])

StrategyOutcomes(content) == {Exc, Got(BlockPage), Got(content)}

\* what callers read of a final fetch state
Result(f) == [pc |-> f.pc, ret |-> f.ret]

FetchResults(contents) ==
    {Result(fetch_url(<<o1, o2, o3>>)) :
        <<o1, o2, o3>> \in UNION {StrategyOutcomes(c) \X StrategyOutcomes(c)
                                    \X StrategyOutcomes(c) : c \in contents}}

Dts == {NoDt} \cup (MinDt..MaxDt)

Post(i) == <<"post", ToString(i)>>

Entry(link, title, summary, dt) ==
    [link |-> link, title |-> title, summary |-> summary, dt |-> dt]

\* entries of the feeds of runs over several sources
EntrySet ==
    {Entry(<<>>, "T", "S", NoDt),
     Entry(<<Href(HostEvil, Post(1))>>, "T", "S", NoDt),
     Entry(<<Href(HostSub, Post(2))>>, "T", "S", MaxDt)}
    \cup {Entry(<<Href(HostSub, Post(1))>>, "T", "S", dt) : dt \in Dts}

\* entries of the feeds of single-source runs: entry i is a valid entry for
\* post i, the same without title, summary and date, an off-site one or one
\* without a link
WideEntry(i, k) ==
    CASE k = "valid" -> Entry(<<Href(<<>>, Post(i))>>, "T", "S", MinDt + (i % (MaxDt + 1)))
      [] k = "bare" -> Entry(<<Href(<<>>, Post(i))>>, "", "", NoDt)
      [] k = "offsite" -> Entry(<<Href(HostEvil, Post(i))>>, "T", "S", NoDt)
      [] OTHER -> Entry(<<>>, "T", "S", NoDt)

WideFeeds ==
    UNION {{[i \in 1..n |-> WideEntry(i, ks[i])] :
               ks \in [1..n -> {"valid", "offsite", "nolink"}]} : n \in 0..CapEntries}
    \cup {[i \in 1..n |-> WideEntry(i, IF i % 2 = 0 THEN "bare" ELSE "valid")] :
             n \in 1..CapEntries}
    \cup {[i \in 1..n |-> WideEntry(i, "valid")] : n \in (CapEntries + 1)..(2 * CapEntries)}

FeedBody(es) == [EmptyBody EXCEPT !.xml = TRUE, !.entries = es]

FeedContents(feeds) ==
    {Resp(200, <<>>, "application/rss+xml", FeedBody(es)) : es \in feeds}
    \cup {Resp(200, <<>>, "text/html", [EmptyBody EXCEPT !.html = TRUE]),
          Resp(404, <<>>, "text/html", EmptyBody)}

FeedFetchesNarrow == FetchResults(FeedContents(SeqsUpTo(EntrySet, MaxEntries)))
FeedFetchesWide == FetchResults(FeedContents(WideFeeds))

\* home and news pages as pick_news_page and detect_feed_urls read them
Anchor(href, text) == [href |-> href, text |-> text]

PageAnchors ==
    {<<>>,
     <<Anchor(Href(HostEvil, <<"news">>), "news"), Anchor(Href(<<>>, <<"about">>), "other"),
       Anchor(Href(<<>>, <<"news">>), "other")>>,
     <<Anchor(BadHref, "news"), Anchor(Href(<<>>, <<"news">>), "news")>>}

PageAlts ==
    {<<>>,
     <<Href(HostEvil, <<"alt">>), Href(<<>>, <<"alt">>), BadHref, Href(<<>>, <<"alt2">>)>>}

PageFetches ==
    FetchResults({Resp(200, <<>>, "text/html",
                       [EmptyBody EXCEPT !.html = TRUE, !.anchors = an, !.alts = al]) :
                     an \in PageAnchors, al \in PageAlts})

\* a call that is not made
NoFetch == [pc |-> "raised", ret |-> <<>>]

\* listing pages as parse_from_html reads them
AnchorSet ==
    {Anchor(Href(<<>>, Post(1)), "other"),
     Anchor(Href(HostEvil, Post(1)), "other"),
     Anchor(Href(<<>>, <<"about">>), "other"),
     Anchor(BadHref, "other")}

LongListing(n) == [i \in 1..n |-> Anchor(Href(<<>>, Post(i)), "other")]

Listing(anchors, final) ==
    Resp(200, final, "text/html", [EmptyBody EXCEPT !.html = TRUE, !.anchors = anchors])

ListingFetchesNarrow ==
    FetchResults({Listing(an, <<>>) : an \in SeqsUpTo(AnchorSet, MaxCands)}
                 \cup {Listing(<<Anchor(Href(<<>>, Post(1)), "other")>>,
                               <<Url(HostEvil, <<"news">>)>>)})

ListingFetchesWide ==
    FetchResults({Listing(LongListing(n), <<>>) :
                     n \in (0..PER_ORG) \cup ((PER_ORG * 6 - 1)..(PER_ORG * 6 + CapExtra))})

\* article pages as parse_article reads them
Article(final, h1, text, date) ==
    Resp(200, final, "text/html",
         [EmptyBody EXCEPT !.html = TRUE, !.h1 = h1, !.text = text, !.date = date])

ArticleDates ==
    {[kind |-> "none", dt |-> NoDt], [kind |-> "invalid", dt |-> NoDt]}
    \cup {[kind |-> "ok", dt |-> dt] : dt \in MinDt..MaxDt}

ArticleFetchesNarrow ==
    FetchResults({Article(<<>>, "H", "X", dt) : dt \in ArticleDates}
                 \cup {Article(<<Url(HostEvil, Post(1))>>, "H", "X",
                               [kind |-> "none", dt |-> NoDt])})

ArticleFetchesWide ==
    FetchResults({Article(<<>>, "H", "X", [kind |-> "ok", dt |-> MaxDt]),
                  Article(<<Url(HostEvil, Post(1))>>, "H", "X",
                          [kind |-> "none", dt |-> NoDt])})

\* the lines of sources.txt of the model
Source(name, home, news, feed) ==
    [name |-> name, home_url |-> home, news_url |-> news, feed_url |-> feed]

SourceSet ==
    {Source("A", HomeUrl, <<>>, <<>>),
     Source("B", HostSubUrl, <<Url(HostSub, <<"news">>)>>, <<Url(HostSub, <<"f">>)>>),
     Source("C", WwwUrl, <<Url(HostOther, <<"news">>)>>, <<>>)}

(***************************************************************************)
(* main, one action per step.                                              *)
(***************************************************************************)
src == sources[si]

MainInit(srcs, w) ==
    /\ wide = w
    /\ sources \in srcs
    /\ si = 1
    /\ pc = IF sources = <<>> THEN "dedup" ELSE "pick"
    /\ news_page = NoLink
    /\ uniq_fu = <<>>
    /\ fi = 1
    /\ d = <<>>
    /\ got = <<>>
    /\ via = "none"
    /\ uniq = <<>>
    /\ ci = 0
    /\ all_items = <<>>
    /\ rejected_external = 0
    /\ dedup = <<>>
    /\ rss = <<>>
    /\ clock = 0
    /\ docs = <<>>

\* line 510: news_page = pick_news_page(home_url, src.news_url)
PickNewsPage ==
    /\ pc = "pick"
    /\ \E f \in IF src.news_url # <<>> THEN {NoFetch} ELSE PageFetches :
          news_page' = pick_news_page(src.home_url, src.news_url, f)
    /\ got' = <<>>
    /\ via' = "none"
    /\ pc' = "detect"
    /\ UNCHANGED <<site, fetch>>
    /\ UNCHANGED <<wide, sources, si, uniq_fu, fi, d, uniq, ci, all_items,
                   rejected_external, dedup, rss, clock, docs>>

\* lines 515-528: feed_urls and uniq_fu
BuildFeedUrls ==
    /\ pc = "detect"
    /\ \E f1 \in PageFetches :
       \E f2 \in IF src.home_url # news_page THEN PageFetches ELSE {NoFetch} :
          LET feed_urls ==
                  src.feed_url
                  \o detect_feed_urls(news_page, src.home_url, f1)
                  \o (IF src.home_url # news_page
                      THEN detect_feed_urls(src.home_url, src.home_url, f2)
                      ELSE <<>>)
          IN /\ uniq_fu' = Uniq(feed_urls)
             /\ pc' = IF feed_urls = <<>> THEN "html" ELSE "feeds"
    /\ fi' = 1
    /\ UNCHANGED <<site, fetch>>
    /\ UNCHANGED <<wide, sources, si, news_page, d, got, via, uniq, ci, all_items,
                   rejected_external, dedup, rss, clock, docs>>

\* lines 532-536: one iteration of the loop over uniq_fu.  uniq_fu and fi
\* are not read after the loop, and d not after a call that returned []: the
\* model clears them there.
TryFeed ==
    /\ pc = "feeds"
    /\ \E f \in IF wide THEN FeedFetchesWide ELSE FeedFetchesNarrow :
          LET fu == uniq_fu[fi]
              res == parse_from_feed(f, fu, src.name, src.home_url)
              more == res = <<>> /\ fi + 1 <= Len(uniq_fu)
          IN /\ got' = res
             /\ d' = IF res # <<>> THEN feed_parse(f, fu).entries ELSE <<>>
             /\ via' = IF res # <<>> THEN "feed" ELSE via
             /\ pc' = IF res # <<>> THEN "filter" ELSE IF more THEN "feeds" ELSE "html"
             /\ fi' = IF more THEN fi + 1 ELSE 1
             /\ uniq_fu' = IF more THEN uniq_fu ELSE <<>>
    /\ UNCHANGED <<site, fetch>>
    /\ UNCHANGED <<wide, sources, si, news_page, uniq, ci, all_items,
                   rejected_external, dedup, rss, clock, docs>>

\* lines 538-539 and 402-433: parse_from_html up to its loop
FetchListing ==
    /\ pc = "html"
    /\ \E f \in IF wide THEN ListingFetchesWide ELSE ListingFetchesNarrow :
          LET r == parse_from_html_head(news_page, src.home_url, f)
          IN /\ uniq' = r.uniq
             /\ pc' = CASE r.kind = "exc" -> "crashed"
                        [] r.kind = "loop" /\ r.uniq # <<>> -> "articles"
                        [] OTHER -> "filter"
    /\ ci' = 0
    /\ got' = <<>>
    /\ UNCHANGED <<site, fetch>>
    /\ UNCHANGED <<wide, sources, si, news_page, uniq_fu, fi, d, via, all_items,
                   rejected_external, dedup, rss, clock, docs>>

\* lines 436-446 and 540-541: one iteration of the loop over uniq[:PER_ORG * 6]
ArticleStep ==
    /\ pc = "articles"
    /\ \E f \in IF wide THEN ArticleFetchesWide ELSE ArticleFetchesNarrow :
          LET r == parse_article(uniq[ci + 1], src.name, src.home_url, f)
              items == IF r.kind = "item" THEN Append(got, r.item) ELSE got
              last == \/ r.kind = "item" /\ Len(items) >= PER_ORG
                      \/ ci + 1 >= Min(Len(uniq), PER_ORG * 6)
          IN /\ got' = items
             /\ pc' = IF last THEN "filter" ELSE "articles"
             /\ via' = IF last /\ items # <<>> THEN "html" ELSE via
    /\ ci' = ci + 1
    /\ UNCHANGED <<site, fetch>>
    /\ UNCHANGED <<wide, sources, si, news_page, uniq_fu, fi, d, uniq, all_items,
                   rejected_external, dedup, rss, clock, docs>>

\* lines 543-553: filter got, extend all_items, go to the next source
FilterStep ==
    /\ pc = "filter"
    /\ LET filtered == Filter(got, src.home_url)
       IN /\ all_items' = all_items \o filtered
          /\ rejected_external' = rejected_external + (Len(got) - Len(filtered))
    /\ si' = si + 1
    /\ pc' = IF si + 1 > Len(sources) THEN "dedup" ELSE "pick"
    /\ news_page' = NoLink
    /\ uniq_fu' = <<>>
    /\ fi' = 1
    /\ d' = <<>>
    /\ got' = <<>>
    /\ via' = "none"
    /\ uniq' = <<>>
    /\ ci' = 0
    /\ UNCHANGED <<site, fetch>>
    /\ UNCHANGED <<wide, sources, dedup, rss, clock, docs>>

\* lines 555-562
DedupStep ==
    /\ pc = "dedup"
    /\ dedup' = DedupLoop(all_items, 1, <<>>)
    /\ pc' = "sort"
    /\ UNCHANGED <<site, fetch>>
    /\ UNCHANGED <<wide, sources, si, news_page, uniq_fu, fi, d, got, via, uniq, ci,
                   all_items, rejected_external, rss, clock, docs>>

\* lines 564-573
SortStep ==
    /\ pc = "sort"
    /\ dedup' = SortDesc(dedup)
    /\ pc' = "write"
    /\ UNCHANGED <<site, fetch>>
    /\ UNCHANGED <<wide, sources, si, news_page, uniq_fu, fi, d, got, via, uniq, ci,
                   all_items, rejected_external, rss, clock, docs>>

\* lines 575-578: the clock has advanced when make_rss reads it
WriteStep ==
    /\ pc = "write"
    /\ clock' = clock + 1
    /\ rss' = <<make_rss(SubSeq(dedup, 1, Min(Len(dedup), TOTAL_LIMIT)), clock + 1)>>
    /\ docs' = Append(docs, rss'[1])
    /\ pc' = "done"
    /\ UNCHANGED <<site, fetch>>
    /\ UNCHANGED <<wide, sources, si, news_page, uniq_fu, fi, d, got, via, uniq, ci,
                   all_items, rejected_external, dedup>>

\* a later run on identical fetch results.  The per-source steps read no
\* clock and depend on the fetch results alone, so they yield the same
\* all_items; the run repeats dedup, sort, truncation and make_rss.
Rerun ==
    /\ pc = "done"
    /\ Len(docs) < MaxRuns
    /\ dedup' = <<>>
    /\ rss' = <<>>
    /\ pc' = "dedup"
    /\ UNCHANGED <<site, fetch>>
    /\ UNCHANGED <<wide, sources, si, news_page, uniq_fu, fi, d, got, via, uniq, ci,
                   all_items, rejected_external, clock, docs>>

SiteIdle == [pc |-> "idle", url |-> NoLink, home_url |-> NoLink, res |-> FALSE]
FetchIdle == [pc |-> "idle", outs |-> <<>>, st |-> FetchStart, got |-> <<>>]

Next ==
    \/ PickNewsPage
    \/ BuildFeedUrls
    \/ TryFeed
    \/ FetchListing
    \/ ArticleStep
    \/ FilterStep
    \/ DedupStep
    \/ SortStep
    \/ WriteStep
    \/ Rerun

\* runs over up to MaxSources sources
Init ==
    /\ MainInit(SeqsUpTo(SourceSet, MaxSources), FALSE)
    /\ site = SiteIdle
    /\ fetch = FetchIdle

Spec == Init /\ [][Next]_vars

\* runs over one source with long feeds and long listing pages
InitCap ==
    /\ MainInit({<<s>> : s \in SourceSet}, TRUE)
    /\ site = SiteIdle
    /\ fetch = FetchIdle

SpecCap == InitCap /\ [][Next]_vars

(***************************************************************************)
(* One call of is_same_site on hosts drawn from a small alphabet.          *)
(***************************************************************************)
SiteAlphabet == {"w", ".", "x", "X"}

\* host names: no empty label; the empty host is what urlparse gives for a
\* URL without a network location
HostNames(n) ==
    {h \in SeqsUpTo(SiteAlphabet, n) :
        h = <<>> \/ \A i \in 1..Len(SplitDots(h, <<>>)) : SplitDots(h, <<>>)[i] # <<>>}

SiteInit ==
    site \in {[pc |-> "call", url |-> Url(a, <<>>), home_url |-> Url(e, <<>>), res |-> FALSE] :
                 a \in HostNames(MaxHostLen), e \in HostNames(MaxHomeLen)}

SameSiteCall ==
    /\ site.pc = "call"
    /\ site' = [site EXCEPT !.pc = "done", !.res = is_same_site(site.url, site.home_url)]
    /\ UNCHANGED <<fetch, mainVars>>

InitSite ==
    /\ SiteInit
    /\ fetch = FetchIdle
    /\ MainInit({<<>>}, FALSE)

NextSite == SameSiteCall

SpecSite == InitSite /\ [][NextSite]_vars

(***************************************************************************)
(* One call of parse_from_feed, its fetch_url call taken strategy by       *)
(* strategy.  Each strategy's outcome is drawn on its own.                 *)
(***************************************************************************)
FeedUrl == Url(HostHome, <<"feed">>)

FetchBodies ==
    {FeedBody(<<Entry(<<Href(<<>>, Post(1))>>, "T", "S", MinDt)>>),
     [EmptyBody EXCEPT !.html = TRUE],
     [EmptyBody EXCEPT !.xml = TRUE, !.html = TRUE],
     EmptyBody}

FetchOutcomes ==
    {Exc} \cup {Got(Resp(st, <<>>, ct, b)) :
                   st \in {200, 403, 404}, ct \in {"text/html", "application/rss+xml"},
                   b \in FetchBodies}

FetchInit ==
    fetch \in {[pc |-> "fetching", outs |-> <<o1, o2, o3>>, st |-> FetchStart, got |-> <<>>] :
                  o1 \in FetchOutcomes, o2 \in FetchOutcomes, o3 \in FetchOutcomes}

\* lines 128-134
TryRequests ==
    /\ fetch.pc = "fetching"
    /\ fetch.st.pc = "requests"
    /\ fetch' = [fetch EXCEPT !.st = FetchStep(fetch.st, fetch.outs)]
    /\ UNCHANGED <<site, mainVars>>

\* lines 137-143
TryCurlCffi ==
    /\ fetch.pc = "fetching"
    /\ fetch.st.pc = "curl_cffi"
    /\ fetch' = [fetch EXCEPT !.st = FetchStep(fetch.st, fetch.outs)]
    /\ UNCHANGED <<site, mainVars>>

\* lines 146-152
TryCloudscraper ==
    /\ fetch.pc = "fetching"
    /\ fetch.st.pc = "cloudscraper"
    /\ fetch' = [fetch EXCEPT !.st = FetchStep(fetch.st, fetch.outs)]
    /\ UNCHANGED <<site, mainVars>>

\* lines 155-157
Fallback ==
    /\ fetch.pc = "fetching"
    /\ fetch.st.pc = "fallback"
    /\ fetch' = [fetch EXCEPT !.st = FetchStep(fetch.st, fetch.outs)]
    /\ UNCHANGED <<site, mainVars>>

\* parse_from_feed after its fetch_url call has returned or raised
FeedParsed ==
    /\ fetch.pc = "fetching"
    /\ fetch.st.pc \in {"returned", "raised"}
    /\ fetch' = [fetch EXCEPT !.pc = "parsed",
                              !.got = parse_from_feed(fetch.st, FeedUrl, "A", HomeUrl)]
    /\ UNCHANGED <<site, mainVars>>

InitFetch ==
    /\ FetchInit
    /\ site = SiteIdle
    /\ MainInit({<<>>}, FALSE)

NextFetch ==
    \/ TryRequests
    \/ TryCurlCffi
    \/ TryCloudscraper
    \/ Fallback
    \/ FeedParsed

SpecFetch == InitFetch /\ [][NextFetch]_vars

(***************************************************************************)
(* Properties of is_same_site (SpecSite).                                  *)
(***************************************************************************)
\* the host lowercased, with a leading "www." prefix, and only that, removed
PrefixNorm(h) ==
    LET l == Lower(h)
    IN IF StartsWith(l, <<"w", "w", "w", ".">>) THEN SubSeq(l, 5, Len(l)) ELSE l

PrefixSameSite(url, home_url) ==
    LET a == PrefixNorm(url.host)
        e == PrefixNorm(home_url.host)
    IN /\ a # <<>>
       /\ e # <<>>
       /\ (a = e \/ EndsWith(a, <<".">> \o e))

\* C2: is_same_site(url, home_url) is true exactly when both hosts are
\* non-empty and the candidate host, lowercased and with only a leading
\* "www." prefix removed, equals the home host normalized the same way or
\* ends with "." followed by it; a host that is neither the home host nor a
\* subdomain of it is never same-site.
SameSiteIsPrefixRule ==
    site.pc = "done" => (site.res <=> PrefixSameSite(site.url, site.home_url))

(***************************************************************************)
(* Properties of fetch_url and of parse_from_feed's use of it (SpecFetch). *)
(***************************************************************************)
Accepted(o) == o.kind = "resp" /\ o.resp.status # 403

IsHtmlPage(o) == o.kind = "resp" /\ o.resp.status # 403 /\ o.resp.body.html

\* C7: the strategies are attempted in the order requests, curl_cffi,
\* cloudscraper; when requests or curl_cffi is the first strategy to yield
\* a non-403 response, the call returns that response and no later strategy
\* is attempted.
FirstAcceptedReturns ==
    fetch.pc # "idle" =>
        /\ fetch.st.tried = SubSeq(Strategies, 1, Len(fetch.st.tried))
        /\ \A k \in 1..2 :
              (Accepted(fetch.outs[k]) /\ \A j \in 1..(k - 1) : ~Accepted(fetch.outs[j])) =>
                  /\ Len(fetch.st.tried) <= k
                  /\ fetch.st.pc # "raised"
                  /\ fetch.st.pc = "returned" =>
                        /\ fetch.st.ret = <<fetch.outs[k].resp>>
                        /\ Len(fetch.st.tried) = k

\* requests answered 403, curl_cffi answered 200 with a feed, cloudscraper
\* would have answered too: the call returned after two strategies
SecondStrategyReturned ==
    /\ fetch.pc = "parsed"
    /\ fetch.outs[1].kind = "resp" /\ fetch.outs[1].resp.status = 403
    /\ fetch.outs[2].kind = "resp" /\ fetch.outs[2].resp.status = 200
    /\ fetch.outs[2].resp.body.entries # <<>>
    /\ fetch.outs[3].kind = "resp"
    /\ fetch.st.pc = "returned"
    /\ fetch.st.tried = <<"requests", "curl_cffi">>
    /\ fetch.got # <<>>

\* C9: fetch_url never returns a response whose status is 403, and when
\* every strategy has returned 403 or raised, the call raises.
Never403Returned ==
    /\ fetch.st.pc = "returned" => fetch.st.ret[1].status # 403
    /\ (fetch.pc = "parsed" /\ \A k \in 1..3 : ~Accepted(fetch.outs[k])) =>
           fetch.st.pc = "raised"

\* C10: for a feed URL a non-403 response whose body is an HTML page is
\* rejected and the next strategy is tried, so the URL is given up only
\* after every strategy was attempted; a body that starts with an XML marker
\* is parsed whatever the content-type.
HtmlFeedResponseRetried ==
    fetch.pc = "parsed" =>
        /\ (\E k \in 1..3 : IsHtmlPage(fetch.outs[k])
                           /\ \A j \in 1..(k - 1) : ~Accepted(fetch.outs[j]))
             => (fetch.got # <<>> \/ Len(fetch.st.tried) = 3)
        /\ (fetch.st.pc = "returned" /\ fetch.st.ret[1].status = 200
            /\ fetch.st.ret[1].body.xml)
             => feed_parse(fetch.st, FeedUrl).parsed

(***************************************************************************)
(* Properties of main (Spec, SpecCap).                                     *)
(***************************************************************************)
\* the home URL of the source an item's title names
HomeOf(org) == (CHOOSE s \in SourceSet : s.name = org).home_url

\* same-site, stated on the normalized hosts: equal, or the candidate is the
\* home host with one or more labels in front
SameSiteRef(url, home_url) ==
    LET a == norm_host_from_url(url)
        e == norm_host_from_url(home_url)
    IN /\ a # <<>>
       /\ e # <<>>
       /\ \/ a = e
          \/ /\ Len(a) > Len(e)
             /\ a[Len(a) - Len(e)] = "."
             /\ SubSeq(a, Len(a) - Len(e) + 1, Len(a)) = e

LinkOk(it) == it.link # NoLink /\ SameSiteRef(it.link, HomeOf(it.title[1]))

\* C1: every item of the aggregate list, of the deduplicated list and of a
\* written document has a non-empty link that is same-site with the home
\* URL of the source that produced it; the filter step adds exactly the
\* items of got that pass and counts the others in rejected_external.
OnlySameSiteItems ==
    /\ [](/\ \A i \in 1..Len(all_items) : LinkOk(all_items[i])
          /\ \A i \in 1..Len(dedup) : LinkOk(dedup[i])
          /\ \A k \in 1..Len(docs) : \A i \in 1..Len(docs[k].items) : LinkOk(docs[k].items[i]))
    /\ [][pc = "filter" =>
            /\ all_items' = all_items \o SelectSeq(got, LinkOk)
            /\ rejected_external' = rejected_external + Len(got) - Len(SelectSeq(got, LinkOk))]_vars

\* a written document with items of two sources, one of them on a
\* subdomain of its source's home host
TwoSourcesInDocument ==
    /\ pc = "done"
    /\ \E i, j \in 1..Len(rss[1].items) :
          /\ rss[1].items[i].title[1] # rss[1].items[j].title[1]
          /\ rss[1].items[i].link.host # HomeOf(rss[1].items[i].title[1]).host

FirstSeen(items) ==
    {i \in 1..Len(items) : \A j \in 1..(i - 1) : items[j].link # items[i].link}

\* C3: after deduplication the list holds exactly one entry per distinct
\* link, that entry is the first item with the link in all_items (source
\* configuration order), and the kept entries are in their order in
\* all_items.
DedupKeepsFirstSeen ==
    pc = "sort" =>
        /\ Len(dedup) = Cardinality(FirstSeen(all_items))
        /\ \A k \in 1..Len(dedup) :
              \E i \in FirstSeen(all_items) :
                 /\ dedup[k] = all_items[i]
                 /\ Cardinality({j \in FirstSeen(all_items) : j < i}) = k - 1

\* two sources gave an item with the same link and the duplicate was dropped
DuplicateAcrossSources ==
    /\ pc = "sort"
    /\ Len(dedup) >= 2
    /\ \E i, j \in 1..Len(all_items) :
          /\ i < j
          /\ all_items[i].link = all_items[j].link
          /\ all_items[i].title # all_items[j].title

\* C4: the items of the document are in non-increasing order of publication
\* instant, every item without an instant comes after every item with one,
\* and the document holds the first TOTAL_LIMIT items of that order.
SortedUndatedLast ==
    pc = "done" =>
        /\ \A i, j \in 1..Len(dedup) :
              i < j =>
                 /\ (dedup[i]._dt # NoDt /\ dedup[j]._dt # NoDt) => dedup[i]._dt >= dedup[j]._dt
                 /\ ~(dedup[i]._dt = NoDt /\ dedup[j]._dt # NoDt)
        /\ Len(rss[1].items) = Min(Len(dedup), TOTAL_LIMIT)
        /\ \A i \in 1..Len(rss[1].items) : rss[1].items[i].link = dedup[i].link

Masked(doc) == [doc EXCEPT !.lastBuildDate = to_rfc822(0)]

\* C5 as stated: two runs on identical fetch results write documents that
\* are identical but for lastBuildDate, whatever the items.
RunsDifferInBuildDateOnly ==
    \A i, j \in 1..Len(docs) : Masked(docs[i]) = Masked(docs[j])

NoDates(item) == [item EXCEPT !.pubDate = to_rfc822(0), !.dc_date = to_iso8601(0)]

\* C5 amended: two runs on identical fetch results write documents that are
\* identical but for lastBuildDate and for the pubDate and dc:date of the
\* items that have no publication instant.
RunsDifferInBuildDateAndUndated ==
    pc = "done" =>
        \A a, b \in 1..Len(docs) :
           /\ Masked([docs[a] EXCEPT !.items = <<>>]) = Masked([docs[b] EXCEPT !.items = <<>>])
           /\ Len(docs[a].items) = Len(docs[b].items)
           /\ \A k \in 1..Len(docs[a].items) :
                 IF dedup[k]._dt = NoDt
                 THEN NoDates(docs[a].items[k]) = NoDates(docs[b].items[k])
                 ELSE docs[a].items[k] = docs[b].items[k]

\* two runs wrote documents holding a dated and an undated item
TwoRunsMixedItems ==
    /\ pc = "done"
    /\ Len(docs) = 2
    /\ docs[1] # docs[2]
    /\ \E i, j \in 1..Len(dedup) : dedup[i]._dt # NoDt /\ dedup[j]._dt = NoDt

\* C6: no fetch outcome terminates the run: main never leaves the loop over
\* the sources by an exception.
NoFetchOutcomeEndsRun == pc # "crashed"

\* entries of d that parse_from_feed keeps: with a link that is same-site
\* with the home URL (a relative link resolves to the host of the feed URL,
\* which is same-site for every feed URL of the model's sources)
ValidEntries(entries, home_url) ==
    {i \in 1..Len(entries) :
        /\ entries[i].link # <<>>
        /\ \/ entries[i].link[1].host = <<>>
           \/ SameSiteRef(entries[i].link[1], home_url)}

\* C8: a source contributes at most PER_ORG items: from a feed, exactly the
\* first PER_ORG entries with a same-site link (all of them when fewer), in
\* feed order; from a listing page, the article loop stops at PER_ORG items
\* and fetches at most PER_ORG * 6 candidates.
PerSourceCap ==
    /\ Len(got) <= PER_ORG
    /\ ci <= PER_ORG * 6
    /\ pc = "articles" => Len(got) < PER_ORG
    /\ (pc = "filter" /\ via = "feed") =>
          LET valid == ValidEntries(d, src.home_url)
          IN /\ Len(got) = Min(Cardinality(valid), PER_ORG)
             /\ \A k \in 1..Len(got) :
                   \E i \in valid :
                      /\ Cardinality({j \in valid : j < i}) = k - 1
                      /\ got[k].link.path = d[i].link[1].path
                      /\ got[k]._dt = d[i].dt

\* a feed of 2 * CapEntries valid entries gave the first PER_ORG of them
LongFeedCapped ==
    /\ pc = "filter"
    /\ via = "feed"
    /\ Len(d) = 2 * CapEntries
    /\ Cardinality(ValidEntries(d, src.home_url)) = 2 * CapEntries
    /\ Len(got) = PER_ORG

====
